---- MODULE Spec2Model ----
(***************************************************************************)
(* Model of the RLG backend (rlg-backend/app): the document handlers of    *)
(* api/documents.py, IngestionService.ingest_file and the FAISS-backed     *)
(* VectorIndexService, together with the relational store (documents,      *)
(* chunks, chunks_fts) and the upload directory they act on.               *)
(*                                                                         *)
(* The handlers are `async def` bodies without any await, so the event     *)
(* loop runs each of them to completion: one action per handler.  A step   *)
(* that can raise (extractor, embedding model, FAISS, file write, SQL      *)
(* statement, commit) is an input `fail` of the action naming the step     *)
(* that raises in this call.                                               *)
(***************************************************************************)
EXTENDS Integers, Sequences, FiniteSets, TLC

\* ------------------------------------------------------------------ bounds
MaxDocs == 2        \* document ids (uuid4) ever allocated
MaxChunks == 3      \* chunk ids (uuid4) ever allocated
MaxEntries == 3     \* vector slots / chunks_fts rows ever held at once
MaxBytes == 2       \* distinct file contents that are uploaded
MaxCalls == 5       \* handler calls in one run

FileNames == {"a.txt", "b.txt", "c.exe"}
Bytes == 1..MaxBytes
DocIds == 1..MaxDocs
ChunkIds == 1..MaxChunks

\* ------------------------------------------------------------------ state
VARIABLES
    docs,          \* documents table (committed rows): id -> row
    chunks,        \* chunks table (committed rows): id -> row
    fts,           \* chunks_fts virtual table: sequence of rows
    files,         \* UPLOAD_DIR: filename -> bytes
    nextDoc,       \* number of document ids handed out so far
    nextChunk,     \* number of chunk ids handed out so far
    index,         \* VectorIndexService.index: the vectors, by position
    chunk_ids,     \* VectorIndexService.chunk_ids: position -> chunk id
    index_file,    \* INDEX_DIR/faiss.index
    mapping_file,  \* INDEX_DIR/chunk_mapping.pkl
    ret,           \* what the last handler did and answered
    calls,         \* number of handler calls so far
    writer,        \* a thread inside add_chunks or remove_chunks
    reader,        \* a thread inside search
    pure           \* a call of a function without side effects: input, result

vars == <<docs, chunks, fts, files, nextDoc, nextChunk,
          index, chunk_ids, index_file, mapping_file, ret, calls,
          writer, reader, pure>>

\* ---------------------------------------------------------------- helpers
Range(s) == {s[i] : i \in DOMAIN s}

Min(a, b) == IF a <= b THEN a ELSE b

Without(f, ks) == [k \in (DOMAIN f) \ ks |-> f[k]]

RECURSIVE SetToSeq(_)
\* an ordered listing of a set of integers (rows come back in rowid order)
SetToSeq(S) ==
    IF S = {} THEN <<>>
    ELSE LET m == CHOOSE x \in S : \A y \in S : x <= y
         IN  <<m>> \o SetToSeq(S \ {m})

\* The whole program state as one value, so that a handler is a function
\* from state to state.
State == [docs |-> docs, chunks |-> chunks, fts |-> fts, files |-> files,
          nextDoc |-> nextDoc, nextChunk |-> nextChunk,
          index |-> index, chunk_ids |-> chunk_ids,
          index_file |-> index_file, mapping_file |-> mapping_file]

\* ------------------------------------------------------- embedding service
BlankText == 0

\* embed_text: a deterministic function of the text; the zero vector for
\* blank text.
embed_text(t) == IF t = BlankText THEN <<"zeros">> ELSE <<"emb", t>>

embed_batch(texts) == [i \in DOMAIN texts |-> embed_text(texts[i])]

\* ---------------------------------------------------- vector index service
NoFile == [exists |-> FALSE, data |-> <<>>]
FileOf(data) == [exists |-> TRUE, data |-> data]

\* _save_index: write_index, then pickle.dump of the mapping.
save_index(S, fail) ==
    IF fail = "write_index" THEN [S |-> S, raised |-> fail]
    ELSE IF fail = "dump_mapping"
         THEN [S |-> [S EXCEPT !.index_file = FileOf(S.index)],
               raised |-> fail]
         ELSE [S |-> [S EXCEPT !.index_file = FileOf(S.index),
                               !.mapping_file = FileOf(S.chunk_ids)],
               raised |-> "none"]

add_chunks(S, ids, contents, fail) ==
    IF ids = <<>> \/ contents = <<>> THEN [S |-> S, raised |-> "none"]
    ELSE IF fail \in {"embed", "index_add"} THEN [S |-> S, raised |-> fail]
    ELSE save_index([S EXCEPT !.index = @ \o embed_batch(contents),
                              !.chunk_ids = @ \o ids], fail)

\* positions of chunk_ids (ascending) whose id is not among ids_to_remove
indices_to_keep(S, ids_to_remove) ==
    SetToSeq({i \in DOMAIN S.chunk_ids : S.chunk_ids[i] \notin ids_to_remove})

remove_chunks(S, ids_to_remove, fail) ==
    LET keep == indices_to_keep(S, ids_to_remove) IN
    IF Len(keep) = Len(S.chunk_ids) THEN [S |-> S, raised |-> "none"]
    ELSE IF \E j \in DOMAIN keep : keep[j] > Len(S.index)
         THEN [S |-> S, raised |-> "reconstruct"]
         ELSE save_index(
                [S EXCEPT !.index = [j \in DOMAIN keep |-> S.index[keep[j]]],
                          !.chunk_ids = [j \in DOMAIN keep |->
                                             S.chunk_ids[keep[j]]]],
                fail)

\* get_stats()["total_vectors"]
total_vectors(S) == Len(S.index)


\* inner product of two embeddings (IndexFlatIP), as a percentage
inner(qv, v) ==
    IF qv = <<"zeros">> \/ v = <<"zeros">> THEN 0
    ELSE IF qv = v THEN 100
    ELSE LET d == IF qv[2] > v[2] THEN qv[2] - v[2] ELSE v[2] - qv[2]
         IN  100 - 10 * Min(9, d)

RECURSIVE faiss_search(_, _, _, _)
\* index.search: the k best positions, by descending inner product
faiss_search(idx, qv, k, taken) ==
    IF k = 0 \/ DOMAIN idx \ taken = {} THEN <<>>
    ELSE LET cand == DOMAIN idx \ taken
             b == CHOOSE i \in cand : \A j \in cand :
                      \/ inner(qv, idx[i]) > inner(qv, idx[j])
                      \/ inner(qv, idx[i]) = inner(qv, idx[j]) /\ i <= j
         IN  <<b>> \o faiss_search(idx, qv, k - 1, taken \cup {b})

\* the (chunk_id, score) pairs search builds from the positions it got,
\* reading the index idx and the mapping ids
map_results(idx, ids, qv, pos) ==
    LET ok == SelectSeq(pos, LAMBDA i : i <= Len(ids))
    IN  [j \in DOMAIN ok |-> [chunk_id |-> ids[ok[j]],
                              score |-> inner(qv, idx[ok[j]])]]

search(S, query, top_k) ==
    IF Len(S.index) = 0 THEN <<>>
    ELSE map_results(S.index, S.chunk_ids, embed_text(query),
                     faiss_search(S.index, embed_text(query),
                                  Min(top_k, Len(S.index)), {}))

\* ------------------------------------------------------- ingestion service
\* _compute_file_hash: SHA-256 of the file's bytes
compute_file_hash(b) == <<"sha256", b>>

\* _process_document: the texts of the chunks the extractor and chunker
\* produce for a file, in order.  File b holds b % 3 paragraphs.
process_document(b) == [i \in 1..(b % 3) |-> 10 * b + i]

\* rows of document d in the chunks table, ascending by id
chunks_of(S, d) ==
    SetToSeq({c \in DOMAIN S.chunks : S.chunks[c].document_id = d})

\* Path(filename).suffix.lower()
suffix(name) == IF name = "c.exe" THEN ".exe" ELSE ".txt"

\* _detect_file_type: unknown extensions fall back to TXT
detect_file_type(name) ==
    LET ext == suffix(name)
        mapping == [e \in {".pdf", ".docx", ".doc", ".txt", ".html", ".htm",
                           ".xlsx", ".xls", ".md", ".png", ".jpg", ".jpeg"}
                      |-> CASE e = ".pdf" -> "pdf"
                            [] e \in {".docx", ".doc"} -> "docx"
                            [] e = ".txt" -> "txt"
                            [] e \in {".html", ".htm"} -> "html"
                            [] e \in {".xlsx", ".xls"} -> "xlsx"
                            [] e = ".md" -> "markdown"
                            [] OTHER -> "image"]
    IN  IF ext \in DOMAIN mapping THEN mapping[ext] ELSE "txt"

\* ingest_file(filepath, metadata)
ingest_file(S, name, fail) ==
    LET h == compute_file_hash(S.files[name])
        existing == {d \in DOMAIN S.docs : S.docs[d].file_hash = h}
        d == S.nextDoc + 1
        row == [filepath |-> name, file_type |-> detect_file_type(name),
                file_hash |-> h, status |-> "processing",
                chunk_count |-> 0, error_message |-> FALSE]
        texts == process_document(S.files[name])
        n == Len(texts)
    IN
    IF existing # {}
    THEN [S |-> S, raised |-> "none",
          doc |-> CHOOSE e \in existing : \A x \in existing : e <= x]
    ELSE IF fail = "extract"
    THEN \* except: status FAILED, error_message, commit, raise
         [S |-> [S EXCEPT !.docs = @ @@ (d :> [row EXCEPT
                                                 !.status = "failed",
                                                 !.error_message = TRUE]),
                          !.nextDoc = d],
          raised |-> fail, doc |-> d]
    ELSE IF fail = "ingest_commit"
    THEN \* the transaction, the flushed document row included, is rolled
         \* back; the handler's second commit has nothing left to write
         [S |-> S, raised |-> fail, doc |-> d]
    ELSE [S |-> [S EXCEPT
                   !.docs = @ @@ (d :> [row EXCEPT !.status = "indexed",
                                                   !.chunk_count = n]),
                   !.chunks = @ @@ [c \in (S.nextChunk + 1)..(S.nextChunk + n)
                                      |-> [document_id |-> d,
                                           content |-> texts[c - S.nextChunk]]],
                   !.nextDoc = d,
                   !.nextChunk = @ + n],
          raised |-> "none", doc |-> d]

\* --------------------------------------------------------- api/documents.py
unlink(S, name) == [S EXCEPT !.files = Without(@, {name})]

fts_rows(S, cs) ==
    [i \in DOMAIN cs |-> [chunk_id |-> cs[i], content |-> S.chunks[cs[i]].content]]

allowed_extensions ==
    {".pdf", ".docx", ".doc", ".txt", ".html", ".htm", ".md", ".xlsx",
     ".xls", ".png", ".jpg", ".jpeg"}

\* POST /documents/upload
upload_document(S, name, bytes, fail) ==
    LET S1 == [S EXCEPT !.files = (name :> bytes) @@ @]
        ing == ingest_file(S1, name, fail)
        cs == chunks_of(ing.S, ing.doc)
        contents == [i \in DOMAIN cs |-> ing.S.chunks[cs[i]].content]
        add == add_chunks(ing.S, cs, contents, fail)
    IN
    IF suffix(name) \notin allowed_extensions
    THEN [S |-> S, status |-> 400, doc |-> 0, raised |-> "none"]
    ELSE IF ing.raised # "none"
    THEN [S |-> unlink(ing.S, name), status |-> 500, doc |-> 0,
          raised |-> ing.raised]
    ELSE IF ing.S.docs[ing.doc].status # "indexed"
    THEN [S |-> ing.S, status |-> 200, doc |-> ing.doc, raised |-> "none"]
    ELSE IF add.raised # "none"
    THEN [S |-> unlink(add.S, name), status |-> 500, doc |-> 0,
          raised |-> add.raised]
    ELSE IF (fail = "fts_insert" /\ cs # <<>>) \/ fail = "commit"
    THEN \* the uncommitted chunks_fts rows go when the session closes
         [S |-> unlink(add.S, name), status |-> 500, doc |-> 0,
          raised |-> fail]
    ELSE [S |-> [add.S EXCEPT !.fts = @ \o fts_rows(add.S, cs)],
          status |-> 200, doc |-> ing.doc, raised |-> "none"]

\* DELETE /documents/{document_id}
delete_document(S, d, fail) ==
    LET cs == Range(chunks_of(S, d))
        rm == IF cs # {} THEN remove_chunks(S, cs, fail)
              ELSE [S |-> S, raised |-> "none"]
    IN
    IF d \notin DOMAIN S.docs
    THEN [S |-> S, status |-> 404, doc |-> d, raised |-> "none"]
    ELSE IF rm.raised # "none"
    THEN [S |-> rm.S, status |-> 500, doc |-> d, raised |-> rm.raised]
    ELSE IF (fail = "fts_delete" /\ cs # {}) \/ fail = "commit"
    THEN [S |-> rm.S, status |-> 500, doc |-> d, raised |-> fail]
    ELSE [S |-> [rm.S EXCEPT
                   !.fts = SelectSeq(@, LAMBDA r : r.chunk_id \notin cs),
                   !.docs = Without(@, {d}),
                   !.chunks = Without(@, cs),
                   !.files = Without(@, {S.docs[d].filepath})],
          status |-> 200, doc |-> d, raised |-> "none"]

\* the except branch of reindex_document: FAILED, error_message, commit
mark_failed(S, d) ==
    [S EXCEPT !.docs[d].status = "failed", !.docs[d].error_message = TRUE]

\* POST /documents/{document_id}/reindex
reindex_document(S, d, fail) ==
    LET cs == Range(chunks_of(S, d))
        rm == IF cs # {} THEN remove_chunks(S, cs, fail)
              ELSE [S |-> S, raised |-> "none"]
        S1 == [rm.S EXCEPT !.chunks = Without(@, cs)]
        texts == process_document(S1.files[S1.docs[d].filepath])
        n == Len(texts)
        ids == [i \in 1..n |-> S1.nextChunk + i]
        S2 == [S1 EXCEPT
                 !.chunks = @ @@ [c \in (S1.nextChunk + 1)..(S1.nextChunk + n)
                                    |-> [document_id |-> d,
                                         content |-> texts[c - S1.nextChunk]]],
                 !.docs[d].chunk_count = n,
                 !.docs[d].status = "indexed",
                 !.nextChunk = @ + n]
        add == add_chunks(S2, ids, texts, fail)
    IN
    IF d \notin DOMAIN S.docs
    THEN [S |-> S, status |-> 404, doc |-> d, raised |-> "none"]
    ELSE IF rm.raised # "none"
    THEN [S |-> rm.S, status |-> 500, doc |-> d, raised |-> rm.raised]
    ELSE IF fail = "delete_commit" /\ cs # {}
    THEN [S |-> rm.S, status |-> 500, doc |-> d, raised |-> fail]
    ELSE IF S1.docs[d].filepath \notin DOMAIN S1.files
    THEN [S |-> S1, status |-> 404, doc |-> d, raised |-> "none"]
    ELSE IF fail \in {"extract", "reindex_commit"}
    THEN [S |-> mark_failed(S1, d), status |-> 500, doc |-> d,
          raised |-> fail]
    ELSE IF add.raised # "none"
    THEN [S |-> mark_failed(add.S, d), status |-> 500, doc |-> d,
          raised |-> add.raised]
    ELSE [S |-> add.S, status |-> 200, doc |-> d, raised |-> "none"]

\* ------------------------------------------------------------ specification
\* The steps that raise in the handlers below.  The two file writes of
\* _save_index are taken to succeed here; the vector index service is taken
\* through all of its failures in SpecIndex.
SaveFails == {"write_index", "dump_mapping"}
AddFails == {"embed", "index_add"} \cup SaveFails
UploadFails == {"none", "extract", "ingest_commit", "embed", "fts_insert"}
DeleteFails == {"none", "fts_delete"}
ReindexFails == {"none", "delete_commit", "extract", "reindex_commit", "embed"}

WithinBounds(S) ==
    /\ calls < MaxCalls
    /\ S.nextDoc <= MaxDocs
    /\ S.nextChunk <= MaxChunks
    /\ Len(S.chunk_ids) <= MaxEntries
    /\ Len(S.fts) <= MaxEntries

\* no thread is inside the vector index service
IdleWriter == [pc |-> "idle", op |-> "none", ids |-> <<>>, keep |-> <<>>,
               vectors |-> <<>>, pre |-> <<>>]
IdleReader == [pc |-> "idle", query |-> 0, top_k |-> 0, k |-> 0,
               hits |-> <<>>, results |-> <<>>, vecs |-> <<>>]

\* no function call is being looked at
NoCall == [fn |-> "none", arg |-> <<>>, out |-> <<>>, done |-> FALSE]

Becomes(S) ==
    /\ docs' = S.docs
    /\ chunks' = S.chunks
    /\ fts' = S.fts
    /\ files' = S.files
    /\ nextDoc' = S.nextDoc
    /\ nextChunk' = S.nextChunk
    /\ index' = S.index
    /\ chunk_ids' = S.chunk_ids
    /\ index_file' = S.index_file
    /\ mapping_file' = S.mapping_file

Init ==
    /\ docs = <<>>
    /\ chunks = <<>>
    /\ fts = <<>>
    /\ files = <<>>
    /\ nextDoc = 0
    /\ nextChunk = 0
    /\ index = <<>>
    /\ chunk_ids = <<>>
    /\ index_file = NoFile
    /\ mapping_file = NoFile
    /\ ret = [op |-> "none", status |-> 0, doc |-> 0]
    /\ calls = 0
    /\ writer = IdleWriter
    /\ reader = IdleReader
    /\ pure = NoCall

UploadCall(name, bytes, fail) ==
    LET R == upload_document(State, name, bytes, fail) IN
    /\ WithinBounds(R.S)
    /\ fail \in {"none", R.raised}
    /\ Becomes(R.S)
    /\ ret' = [op |-> "upload", status |-> R.status, doc |-> R.doc]
    /\ calls' = calls + 1
    /\ UNCHANGED <<writer, reader, pure>>

DeleteCall(d, fail) ==
    LET R == delete_document(State, d, fail) IN
    /\ WithinBounds(R.S)
    /\ fail \in {"none", R.raised}
    /\ Becomes(R.S)
    /\ ret' = [op |-> "delete", status |-> R.status, doc |-> R.doc]
    /\ calls' = calls + 1
    /\ UNCHANGED <<writer, reader, pure>>

ReindexCall(d, fail) ==
    LET R == reindex_document(State, d, fail) IN
    /\ WithinBounds(R.S)
    /\ fail \in {"none", R.raised}
    /\ Becomes(R.S)
    /\ ret' = [op |-> "reindex", status |-> R.status, doc |-> R.doc]
    /\ calls' = calls + 1
    /\ UNCHANGED <<writer, reader, pure>>

Upload ==
    \E name \in FileNames, bytes \in Bytes, fail \in UploadFails :
        UploadCall(name, bytes, fail)

Delete == \E d \in DocIds, fail \in DeleteFails : DeleteCall(d, fail)

Reindex == \E d \in DocIds, fail \in ReindexFails : ReindexCall(d, fail)

Next == Upload \/ Delete \/ Reindex

\* the handlers when no step raises
UploadOk == \E name \in FileNames, bytes \in Bytes : UploadCall(name, bytes, "none")

DeleteOk == \E d \in DocIds : DeleteCall(d, "none")

ReindexOk == \E d \in DocIds : ReindexCall(d, "none")

NextOk == UploadOk \/ DeleteOk \/ ReindexOk

Spec == Init /\ [][Next]_vars

SpecOk == Init /\ [][NextOk]_vars

\* ------------------------------------------- the vector index service alone
\* The text of a chunk never changes, so the contents that callers pass
\* with an id are a function of the id.
ChunkText(c) == 10 + c

TextsOf(ids) == [i \in DOMAIN ids |-> ChunkText(ids[i])]

\* the id lists callers pass to add_chunks: the chunks of one document
IdLists == {<<>>} \cup {<<c>> : c \in ChunkIds}
               \cup {<<c, e>> : c, e \in {x \in ChunkIds : x <= 2}}

AddChunksCall(ids, fail) ==
    LET R == add_chunks(State, ids, TextsOf(ids), fail) IN
    /\ WithinBounds(R.S)
    /\ fail \in {"none", R.raised}
    /\ Becomes(R.S)
    /\ ret' = [op |-> "add_chunks",
               status |-> IF R.raised = "none" THEN 200 ELSE 500, doc |-> 0]
    /\ calls' = calls + 1
    /\ UNCHANGED <<writer, reader, pure>>

RemoveChunksCall(ids, fail) ==
    LET R == remove_chunks(State, ids, fail) IN
    /\ WithinBounds(R.S)
    /\ fail \in {"none", R.raised}
    /\ Becomes(R.S)
    /\ ret' = [op |-> "remove_chunks",
               status |-> IF R.raised = "none" THEN 200 ELSE 500, doc |-> 0]
    /\ calls' = calls + 1
    /\ UNCHANGED <<writer, reader, pure>>

AddChunks ==
    \E ids \in IdLists, fail \in {"none"} \cup AddFails :
        AddChunksCall(ids, fail)

RemoveChunks ==
    \E ids \in SUBSET ChunkIds, fail \in {"none"} \cup SaveFails :
        RemoveChunksCall(ids, fail)

NextIndex == AddChunks \/ RemoveChunks

SpecIndex == Init /\ [][NextIndex]_vars

\* ------------------------------------- search beside a write, step by step
\* VectorIndexService takes no lock in add_chunks, remove_chunks or search
\* (its class-level _lock only guards the singleton's construction), so a
\* thread in search interleaves with a thread in a write at every read and
\* write of self.index and self.chunk_ids.
Queries == {ChunkText(c) : c \in ChunkIds}

RECURSIVE Listings(_)
\* the orderings of the subsets of a set of ids
Listings(S) ==
    {<<>>} \cup UNION {{<<c>> \o l : l \in Listings(S \ {c})} : c \in S}

\* An index as sequential add_chunks calls with fresh ids leave it.
InitConc ==
    /\ docs = <<>>
    /\ chunks = <<>>
    /\ fts = <<>>
    /\ files = <<>>
    /\ nextDoc = 0
    /\ nextChunk = 0
    /\ ret = [op |-> "none", status |-> 0, doc |-> 0]
    /\ calls = 0
    /\ writer = IdleWriter
    /\ reader = IdleReader
    /\ pure = NoCall
    /\ \E l \in Listings(ChunkIds) :
         /\ chunk_ids = l
         /\ index = embed_batch(TextsOf(l))
         /\ index_file = FileOf(embed_batch(TextsOf(l)))
         /\ mapping_file = FileOf(l)

\* a thread enters add_chunks(ids, contents) with ids not yet indexed
WriterEntersAdd ==
    \E ids \in IdLists \ {<<>>} :
        /\ writer.pc = "idle"
        /\ Range(ids) \cap Range(chunk_ids) = {}
        /\ Len(ids) = Cardinality(Range(ids))
        /\ Len(chunk_ids) + Len(ids) <= MaxEntries
        /\ writer' = [IdleWriter EXCEPT !.pc = "embed", !.op = "add",
                                        !.ids = ids, !.pre = State]
        /\ UNCHANGED <<pure, docs, chunks, fts, files, nextDoc, nextChunk, index,
                       chunk_ids, index_file, mapping_file, ret, calls,
                       reader>>

\* a thread enters remove_chunks(chunk_ids_to_remove)
WriterEntersRemove ==
    \E ids \in SUBSET ChunkIds :
        /\ writer.pc = "idle"
        /\ writer' = [IdleWriter EXCEPT !.pc = "scan", !.op = "remove",
                                        !.ids = SetToSeq(ids), !.pre = State]
        /\ UNCHANGED <<pure, docs, chunks, fts, files, nextDoc, nextChunk, index,
                       chunk_ids, index_file, mapping_file, ret, calls,
                       reader>>

\* add_chunks, one statement at a time
AddStep ==
    /\ writer.op = "add"
    /\ \/ /\ writer.pc = "embed"
          /\ writer' = [writer EXCEPT !.pc = "index_add",
                           !.vectors = embed_batch(TextsOf(writer.ids))]
          /\ UNCHANGED <<index, chunk_ids, index_file, mapping_file>>
       \/ /\ writer.pc = "index_add"
          /\ index' = index \o writer.vectors
          /\ writer' = [writer EXCEPT !.pc = "extend"]
          /\ UNCHANGED <<chunk_ids, index_file, mapping_file>>
       \/ /\ writer.pc = "extend"
          /\ chunk_ids' = chunk_ids \o writer.ids
          /\ writer' = [writer EXCEPT !.pc = "save"]
          /\ UNCHANGED <<index, index_file, mapping_file>>
       \/ /\ writer.pc = "save"
          /\ index_file' = FileOf(index)
          /\ mapping_file' = FileOf(chunk_ids)
          /\ writer' = [writer EXCEPT !.pc = "done"]
          /\ UNCHANGED <<index, chunk_ids>>
    /\ UNCHANGED <<pure, docs, chunks, fts, files, nextDoc, nextChunk, ret, calls,
                   reader>>

\* remove_chunks, one statement at a time
RemoveStep ==
    /\ writer.op = "remove"
    /\ \/ /\ writer.pc = "scan"
          /\ LET keep == indices_to_keep(State, Range(writer.ids))
             IN  writer' = [writer EXCEPT
                              !.keep = keep,
                              !.pc = IF Len(keep) = Len(chunk_ids)
                                     THEN "done" ELSE "reconstruct"]
          /\ UNCHANGED <<index, chunk_ids, index_file, mapping_file>>
       \/ /\ writer.pc = "reconstruct"
          /\ \A j \in DOMAIN writer.keep : writer.keep[j] <= Len(index)
          /\ writer' = [writer EXCEPT
                          !.vectors = [j \in DOMAIN writer.keep |->
                                          index[writer.keep[j]]],
                          !.pc = "new_index"]
          /\ UNCHANGED <<index, chunk_ids, index_file, mapping_file>>
       \/ /\ writer.pc = "new_index"
          /\ index' = <<>>
          /\ writer' = [writer EXCEPT
                          !.pc = IF writer.keep = <<>> THEN "set_chunk_ids"
                                 ELSE "refill"]
          /\ UNCHANGED <<chunk_ids, index_file, mapping_file>>
       \/ /\ writer.pc = "refill"
          /\ index' = index \o writer.vectors
          /\ writer' = [writer EXCEPT !.pc = "set_chunk_ids"]
          /\ UNCHANGED <<chunk_ids, index_file, mapping_file>>
       \/ /\ writer.pc = "set_chunk_ids"
          /\ \A j \in DOMAIN writer.keep : writer.keep[j] <= Len(chunk_ids)
          /\ chunk_ids' = [j \in DOMAIN writer.keep |->
                              chunk_ids[writer.keep[j]]]
          /\ writer' = [writer EXCEPT !.pc = "save"]
          /\ UNCHANGED <<index, index_file, mapping_file>>
       \/ /\ writer.pc = "save"
          /\ index_file' = FileOf(index)
          /\ mapping_file' = FileOf(chunk_ids)
          /\ writer' = [writer EXCEPT !.pc = "done"]
          /\ UNCHANGED <<index, chunk_ids>>
    /\ UNCHANGED <<pure, docs, chunks, fts, files, nextDoc, nextChunk, ret, calls,
                   reader>>

\* a thread enters search(query, top_k)
ReaderEnters ==
    \E query \in Queries, top_k \in 1..MaxEntries :
        /\ reader.pc = "idle"
        /\ reader' = [IdleReader EXCEPT !.pc = "check", !.query = query,
                                        !.top_k = top_k]
        /\ UNCHANGED <<pure, docs, chunks, fts, files, nextDoc, nextChunk, index,
                       chunk_ids, index_file, mapping_file, ret, calls,
                       writer>>

\* search, one read of self.index or self.chunk_ids at a time
SearchStep ==
    /\ \/ /\ reader.pc = "check"
          /\ reader' = [reader EXCEPT
                          !.pc = IF Len(index) = 0 THEN "done" ELSE "k"]
       \/ /\ reader.pc = "k"
          /\ reader' = [reader EXCEPT !.k = Min(reader.top_k, Len(index)),
                                      !.pc = "faiss"]
       \/ /\ reader.pc = "faiss"
          /\ LET pos == faiss_search(index, embed_text(reader.query),
                                     reader.k, {})
             IN  reader' = [reader EXCEPT
                              !.hits = [j \in DOMAIN pos |->
                                          [pos |-> pos[j],
                                           vec |-> index[pos[j]]]],
                              !.pc = "map"]
       \/ /\ reader.pc = "map"
          /\ reader.hits # <<>>
          /\ LET h == Head(reader.hits) IN
             reader' = [reader EXCEPT
                          !.hits = Tail(@),
                          !.results =
                              IF h.pos <= Len(chunk_ids)
                              THEN Append(@, [chunk_id |-> chunk_ids[h.pos],
                                              score |-> inner(embed_text(reader.query), h.vec)])
                              ELSE @,
                          !.vecs = IF h.pos <= Len(chunk_ids)
                                   THEN Append(@, h.vec) ELSE @]
       \/ /\ reader.pc = "map"
          /\ reader.hits = <<>>
          /\ reader' = [reader EXCEPT !.pc = "done"]
    /\ UNCHANGED <<pure, docs, chunks, fts, files, nextDoc, nextChunk, index,
                   chunk_ids, index_file, mapping_file, ret, calls, writer>>

NextConc ==
    \/ WriterEntersAdd
    \/ WriterEntersRemove
    \/ AddStep
    \/ RemoveStep
    \/ ReaderEnters
    \/ SearchStep

SpecConc == InitConc /\ [][NextConc]_vars

\* ------------------------------------------------------------------ views
\* ids of the chunk rows whose owning document has status INDEXED
IndexedChunkIds ==
    {c \in DOMAIN chunks : /\ chunks[c].document_id \in DOMAIN docs
                           /\ docs[chunks[c].document_id].status = "indexed"}

\* chunk ids named by the rows of chunks_fts
LexicalIds == {fts[i].chunk_id : i \in DOMAIN fts}

\* ----------------------------------------------------------------- claims
\* C1: in every quiescent state the set of chunk ids in the vector index
\* mapping equals the set of ids of chunk rows of INDEXED documents.
C1_VectorCoversIndexed == Range(chunk_ids) = IndexedChunkIds

\* C2: in every quiescent state the set of chunk ids in chunks_fts equals
\* the set of ids of chunk rows of INDEXED documents.
C2_LexicalCoversIndexed == LexicalIds = IndexedChunkIds

\* number of positions of the sequence q whose entry satisfies being in ids
CountIn(q, ids) == Cardinality({i \in DOMAIN q : q[i] \in ids})

\* ids of the chunk rows of document d, in the state before the step
RowsOf(d) == Range(chunks_of(State, d))

\* C3: a second upload of a file whose SHA-256 equals that of an existing
\* document returns that document unchanged and leaves the number of its
\* chunk rows, vector index entries and chunks_fts rows unchanged.
C3_IdempotentIngest ==
    [][(ret'.op = "upload" /\ ret'.status = 200 /\ ret'.doc \in DOMAIN docs)
         => /\ docs'[ret'.doc] = docs[ret'.doc]
            /\ chunks' = chunks
            /\ CountIn(chunk_ids', RowsOf(ret'.doc))
                 = CountIn(chunk_ids, RowsOf(ret'.doc))
            /\ Len(index') = Len(index)
            /\ Len(fts') = Len(fts)]_vars

\* every (chunk_id, score) list a vector search can return in state S
AllSearches(S) ==
    {search(S, q, k) : q \in {t \in 0..(10 * MaxBytes + 2) : TRUE},
                       k \in 1..(MaxEntries + 1)}

\* chunk ids returned by some vector search in state S
VectorHits(S) ==
    UNION {{r[i].chunk_id : i \in DOMAIN r} : r \in AllSearches(S)}

\* chunk ids returned by some lexical match (_bm25_search) in state S
LexicalHits(S) == {S.fts[i].chunk_id : i \in DOMAIN S.fts}

\* chunk ids of the records retrieve can return in state S: the merged
\* candidates whose chunk row is loaded by _structural_rerank
RetrieveHits(S) == (VectorHits(S) \cup LexicalHits(S)) \cap DOMAIN S.chunks

\* C4: after delete_document(D) completes no chunk of D is returned by any
\* search, no chunk row of D remains, and the vector count has decreased by
\* D.chunk_count.
C4_DeleteCascades ==
    [][(ret'.op = "delete" /\ ret'.status = 200)
         => LET d == ret'.doc
                cs == RowsOf(d)
            IN  /\ VectorHits(State') \cap cs = {}
                /\ LexicalHits(State') \cap cs = {}
                /\ RetrieveHits(State') \cap cs = {}
                /\ \A c \in DOMAIN chunks' : chunks'[c].document_id # d
                /\ total_vectors(State')
                     = total_vectors(State) - docs[d].chunk_count]_vars

\* how often each value occurs in a sequence
BagOf(q) == [v \in Range(q) |-> Cardinality({i \in DOMAIN q : q[i] = v})]

\* What the three stores hold in state S, chunk and document ids aside (a
\* re-ingest draws fresh uuids): the texts in the chunk store, the vectors
\* of the index with whether their slot names a chunk row of that text, and
\* the texts in chunks_fts with whether their row names such a chunk row.
Resolves(S, c, text) == c \in DOMAIN S.chunks /\ S.chunks[c].content = text

Observable(S) ==
    [store |-> BagOf([i \in 1..Len(SetToSeq(DOMAIN S.chunks)) |->
                        S.chunks[SetToSeq(DOMAIN S.chunks)[i]].content]),
     vector |-> [i \in DOMAIN S.index |->
                   [vec |-> S.index[i],
                    live |-> /\ i <= Len(S.chunk_ids)
                             /\ \E t \in 0..(10 * MaxBytes + 2) :
                                  /\ embed_text(t) = S.index[i]
                                  /\ Resolves(S, S.chunk_ids[i], t)]],
     lexical |-> BagOf([i \in DOMAIN S.fts |->
                          [content |-> S.fts[i].content,
                           live |-> Resolves(S, S.fts[i].chunk_id,
                                             S.fts[i].content)]])]

\* the state after delete_document(d) followed by an upload of d's file
DeleteThenIngest(S, d) ==
    upload_document(delete_document(S, d, "none").S, S.docs[d].filepath,
                    S.files[S.docs[d].filepath], "none").S

\* C5: after reindex_document(D) succeeds, the chunk store, the vector
\* index and the lexical index hold what they would hold after deleting D
\* and ingesting the same file again.
C5_ReindexIsDeleteIngest ==
    [][(ret'.op = "reindex" /\ ret'.status = 200)
         => Observable(State') = Observable(DeleteThenIngest(State, ret'.doc))
      ]_vars

\* C6: on any failure of ingest_file after the document row is created the
\* document ends FAILED with error_message set, the error reaches the
\* caller, and no chunk row of the document remains.
C6_IngestFailureMarksFailed ==
    [][\A name \in FileNames, bytes \in Bytes,
          fail \in {"extract", "ingest_commit"} :
          UploadCall(name, bytes, fail)
            => /\ ret'.status = 500
               /\ \E d \in DOMAIN docs' \ DOMAIN docs :
                    /\ docs'[d].status = "failed"
                    /\ docs'[d].error_message
                    /\ docs'[d].file_hash = compute_file_hash(bytes)
               /\ \A c \in DOMAIN chunks' :
                    chunks'[c].document_id \in DOMAIN docs]_vars

\* C7: an upload that fails on a chunk-store or index failure fails
\* atomically: no chunk row, vector index entry or chunks_fts row written
\* for it remains, and no document is left INDEXED for it.
C7_UploadFailsAtomically ==
    [][(ret'.op = "upload" /\ ret'.status = 500)
         => /\ chunks' = chunks
            /\ index' = index
            /\ chunk_ids' = chunk_ids
            /\ fts' = fts
            /\ \A d \in DOMAIN docs' \ DOMAIN docs :
                 docs'[d].status # "indexed"]_vars

\* C9: add_chunks is atomic: either all given ids and vectors are appended
\* to the in-memory index, the id mapping and the persisted files, or none
\* of the three is changed.
C9_AddChunksAtomic ==
    [][\A ids \in IdLists \ {<<>>}, fail \in {"none"} \cup AddFails :
          AddChunksCall(ids, fail)
            => \/ /\ index' = index \o embed_batch(TextsOf(ids))
                  /\ chunk_ids' = chunk_ids \o ids
                  /\ index_file' = FileOf(index')
                  /\ mapping_file' = FileOf(chunk_ids')
               \/ UNCHANGED <<index, chunk_ids, index_file, mapping_file>>
      ]_vars

\* C10: after remove_chunks(ids) no search returns any of ids, and the
\* vector count has decreased by exactly the number of given ids that were
\* present.
C10_RemoveCount ==
    [][\A ids \in SUBSET ChunkIds :
          (RemoveChunksCall(ids, "none") /\ ret'.status = 200)
            => /\ VectorHits(State') \cap ids = {}
               /\ total_vectors(State) - total_vectors(State')
                    = Cardinality(ids \cap Range(chunk_ids))]_vars

\* the state the writer's call leaves when it runs alone
AfterWrite ==
    IF writer.op = "add"
    THEN add_chunks(writer.pre, writer.ids, TextsOf(writer.ids), "none").S
    ELSE IF writer.op = "remove"
    THEN remove_chunks(writer.pre, Range(writer.ids), "none").S
    ELSE State

BeforeWrite == IF writer.op = "none" THEN State ELSE writer.pre

\* C8: a search running beside add_chunks or remove_chunks returns what it
\* returns on the index and mapping from before the write or on both from
\* after it, and never a chunk id for a vector that belongs to another
\* chunk.
C8_SearchNeverTorn ==
    reader.pc = "done"
      => /\ reader.results \in {search(BeforeWrite, reader.query, reader.top_k),
                                search(AfterWrite, reader.query, reader.top_k)}
         /\ \A j \in DOMAIN reader.results :
              reader.vecs[j]
                = embed_text(ChunkText(reader.results[j].chunk_id))

\* C11: after any sequence of upload_document, delete_document and
\* reindex_document calls the chunk ids in the vector index id mapping are
\* pairwise distinct.
C11_MappingIdsDistinct ==
    \A i, j \in DOMAIN chunk_ids : chunk_ids[i] = chunk_ids[j] => i = j

\* ---------------------------------------------------------------- restart
\* _load_or_create_index: both files present -> read them; otherwise a new
\* empty index and an empty mapping.
load_or_create_index(S) ==
    IF S.index_file.exists /\ S.mapping_file.exists
    THEN [S EXCEPT !.index = S.index_file.data,
                   !.chunk_ids = S.mapping_file.data]
    ELSE [S EXCEPT !.index = <<>>, !.chunk_ids = <<>>]

\* The process stops and a new one constructs VectorIndexService.  A stop
\* between the two writes of _save_index leaves the files that a raising
\* pickle.dump leaves (fail = "dump_mapping").
Restart ==
    /\ calls < MaxCalls
    /\ Becomes(load_or_create_index(State))
    /\ ret' = [op |-> "restart", status |-> 200, doc |-> 0]
    /\ calls' = calls + 1
    /\ UNCHANGED <<writer, reader, pure>>

NextRestart == AddChunks \/ RemoveChunks \/ Restart

SpecRestart == Init /\ [][NextRestart]_vars

\* C12: after any sequence of add_chunks and remove_chunks and a restart at
\* any point, also between the two file writes of _save_index, the loaded
\* index holds as many vectors as the mapping holds ids and the i-th vector
\* is the vector of the i-th id.
C12_RestartAligned ==
    ret.op = "restart"
      => /\ Len(index) = Len(chunk_ids)
         /\ \A i \in DOMAIN chunk_ids :
              i \in DOMAIN index
                => index[i] = embed_text(ChunkText(chunk_ids[i]))

\* C13: in every committed state, every document with status INDEXED has
\* chunk_count equal to the number of chunk rows it owns.
C13_ChunkCountMatchesRows ==
    \A d \in DOMAIN docs :
        docs[d].status = "indexed"
          => docs[d].chunk_count = Cardinality(RowsOf(d))

\* ---------------------------------------------------------------- chunking
\* A sentence is its number of characters; a paragraph is the sequence of its
\* sentences, separated by one blank; a text is the sequence of its
\* paragraphs, separated by blank lines.  A chunk's content is a sequence of
\* sentences joined by one blank.
MaxSents == 2       \* sentences of one paragraph
MaxParas == 2       \* paragraphs of one text
MaxPages == 2       \* pages of one PDF
MaxLines == 2       \* non-blank lines of one Markdown file

CHUNK_SIZE == 512
SentLens == {200, 600}
LineLens == {50, 150}
min_size == 100
NoPage == 0

RECURSIVE SumSeq(_)

SumSeq(q) == IF q = <<>> THEN 0 ELSE q[1] + SumSeq(Tail(q))

\* len() of sentences joined by one blank
StrLen(q) == IF q = <<>> THEN 0 ELSE SumSeq(q) + Len(q) - 1

SeqsUpTo(S, n) == UNION {[1..k -> S] : k \in 0..n}

Paragraphs == SeqsUpTo(SentLens, MaxSents) \ {<<>>}
Texts == SeqsUpTo(Paragraphs, MaxParas)
PageTexts == SeqsUpTo(Paragraphs, 1)
Lines == [header : BOOLEAN, len : LineLens]

\* Chunk(...) as _chunk_text_with_structure constructs it
ParagraphChunk(content, page, seq) ==
    [content |-> content, page_number |-> page, chunk_type |-> "paragraph",
     sequence_index |-> seq]

\* `if current_chunk:` ... chunks.append(chunk); sequence_index += 1
Flush(st, page) ==
    IF st.cur = <<>> THEN st
    ELSE [chunks |-> Append(st.chunks,
                            ParagraphChunk(st.cur, page, st.seq)),
          cur |-> <<>>, len |-> 0, seq |-> st.seq + 1]

\* a long paragraph kept whole
sentence_loop_unsplit(st, sents, i, page) ==
    [st EXCEPT !.cur = @ \o sents, !.len = @ + StrLen(sents) + 1]

RECURSIVE sentence_loop(_, _, _, _)

\* the loop over the sentences of a paragraph longer than CHUNK_SIZE
sentence_loop(st, sents, i, page) ==
    IF i > Len(sents) THEN st
    ELSE LET st1 == IF st.len + sents[i] > CHUNK_SIZE /\ st.cur # <<>>
                    THEN Flush(st, page) ELSE st
         IN  sentence_loop([st1 EXCEPT !.cur = Append(@, sents[i]),
                                         !.len = @ + sents[i] + 1],
                             sents, i + 1, page)

RECURSIVE chunk_paragraphs(_, _, _, _)

\* the loop over the paragraphs of the text
chunk_paragraphs(st, paras, i, page) ==
    IF i > Len(paras) THEN st
    ELSE LET para == paras[i]
             para_length == StrLen(para)
             st1 == IF st.len + para_length > CHUNK_SIZE /\ st.cur # <<>>
                    THEN Flush(st, page) ELSE st
         IN  IF para_length > CHUNK_SIZE
             THEN chunk_paragraphs(
                      sentence_loop(Flush(st, page), para, 1, page),
                      paras, i + 1, page)
             ELSE chunk_paragraphs(
                      [st1 EXCEPT !.cur = @ \o para,
                                  !.len = @ + para_length + 1],
                      paras, i + 1, page)

chunk_text_with_structure(text, page_number) ==
    Flush(chunk_paragraphs([chunks |-> <<>>, cur |-> <<>>, len |-> 0,
                            seq |-> 0], text, 1, page_number),
          page_number).chunks

RECURSIVE process_pdf_from(_, _)

process_pdf_from(pages, page_num) ==
    IF page_num > Len(pages) THEN <<>>
    ELSE (IF pages[page_num] = <<>> THEN <<>>
          ELSE chunk_text_with_structure(pages[page_num], page_num))
         \o process_pdf_from(pages, page_num + 1)

process_pdf(pages) == process_pdf_from(pages, 1)

process_text(text) == chunk_text_with_structure(text, NoPage)

RECURSIVE merge_from(_, _, _)

\* the loop of _merge_small_chunks; st.buffer is <<>> (None) or <<chunk>>
merge_from(st, cs, i) ==
    IF i > Len(cs) THEN st
    ELSE LET chunk == cs[i] IN
         IF StrLen(chunk.content) < min_size /\ chunk.chunk_type # "heading"
         THEN merge_from(
                  IF st.buffer # <<>>
                  THEN [st EXCEPT !.buffer[1].content = @ \o chunk.content]
                  ELSE [st EXCEPT !.buffer = <<chunk>>],
                  cs, i + 1)
         ELSE IF st.buffer = <<>>
         THEN merge_from([st EXCEPT !.merged = Append(@, chunk)], cs, i + 1)
         ELSE IF StrLen(st.buffer[1].content) < min_size
         THEN merge_from(
                  [merged |-> Append(st.merged,
                                     [chunk EXCEPT !.content =
                                        st.buffer[1].content \o @]),
                   buffer |-> <<>>], cs, i + 1)
         ELSE merge_from(
                  [merged |-> Append(Append(st.merged, st.buffer[1]), chunk),
                   buffer |-> <<>>], cs, i + 1)

merge_small_chunks(cs) ==
    IF Len(cs) < 2 THEN cs
    ELSE LET st == merge_from([merged |-> <<>>, buffer |-> <<>>], cs, 1)
             n == Len(st.merged)
         IN  IF st.buffer = <<>> THEN st.merged
             ELSE IF st.merged # <<>>
             THEN [st.merged EXCEPT ![n].content = @ \o st.buffer[1].content]
             ELSE <<st.buffer[1]>>

\* One Chunk per non-blank line; sequence_index is not passed to Chunk(),
\* so the row gets the column default 0.
line_chunks(lines) ==
    [i \in DOMAIN lines |->
        [content |-> <<lines[i].len>>, page_number |-> NoPage,
         chunk_type |-> IF lines[i].header THEN "heading" ELSE "paragraph",
         sequence_index |-> 0]]

process_markdown(lines) == merge_small_chunks(line_chunks(lines))

\* _process_document: route by file type
processor_of(a) ==
    IF a.file_type = "pdf" THEN process_pdf(a.body)
    ELSE IF a.file_type = "markdown" THEN process_markdown(a.body)
    ELSE process_text(a.body)

FileInputs ==
    {[file_type |-> "txt", body |-> t] : t \in Texts}
      \cup {[file_type |-> "pdf", body |-> ps] :
              ps \in SeqsUpTo(PageTexts, MaxPages) \ {<<>>}}
      \cup {[file_type |-> "markdown", body |-> ls] :
              ls \in SeqsUpTo(Lines, MaxLines)}

InitChunk ==
    /\ docs = <<>>
    /\ chunks = <<>>
    /\ fts = <<>>
    /\ files = <<>>
    /\ nextDoc = 0
    /\ nextChunk = 0
    /\ index = <<>>
    /\ chunk_ids = <<>>
    /\ index_file = NoFile
    /\ mapping_file = NoFile
    /\ ret = [op |-> "none", status |-> 0, doc |-> 0]
    /\ calls = 0
    /\ writer = IdleWriter
    /\ reader = IdleReader
    /\ \E a \in FileInputs :
         pure = [fn |-> "process_document", arg |-> a, out |-> <<>>,
                 done |-> FALSE]

\* the chunks of one file, in the order ingest_file stores them
ProcessDocument ==
    /\ pure.fn = "process_document"
    /\ ~pure.done
    /\ pure' = [pure EXCEPT !.out = processor_of(pure.arg), !.done = TRUE]
    /\ UNCHANGED <<docs, chunks, fts, files, nextDoc, nextChunk, index,
                   chunk_ids, index_file, mapping_file, ret, calls, writer,
                   reader>>

NextChunker == ProcessDocument

SpecChunk == InitChunk /\ [][NextChunker]_vars

\* C14: for every ingested document with n chunks, of any supported format
\* and any number of pages, the chunks' sequence_index values are 0..n-1 in
\* the order the chunks were produced.
C14_SequenceDense ==
    (pure.fn = "process_document" /\ pure.done)
      => \A i \in DOMAIN pure.out : pure.out[i].sequence_index = i - 1

\* ------------------------------------------------- ingest_file called alone
IngestFails == {"none", "extract", "ingest_commit"}

\* UPLOAD_DIR may hold a file that did not come in through upload_document
InitIngest ==
    /\ docs = <<>>
    /\ chunks = <<>>
    /\ fts = <<>>
    /\ nextDoc = 0
    /\ nextChunk = 0
    /\ index = <<>>
    /\ chunk_ids = <<>>
    /\ index_file = NoFile
    /\ mapping_file = NoFile
    /\ ret = [op |-> "none", status |-> 0, doc |-> 0]
    /\ calls = 0
    /\ writer = IdleWriter
    /\ reader = IdleReader
    /\ pure = NoCall
    /\ \E bytes \in Bytes : files \in {<<>>, "c.exe" :> bytes}

\* IngestionService(db).ingest_file(filepath) on a file of UPLOAD_DIR
IngestCall(name, fail) ==
    LET R == ingest_file(State, name, fail) IN
    /\ name \in DOMAIN files
    /\ WithinBounds(R.S)
    /\ fail \in {"none", R.raised}
    /\ Becomes(R.S)
    /\ ret' = [op |-> "ingest_file",
               status |-> IF R.raised = "none" THEN 200 ELSE 500,
               doc |-> R.doc]
    /\ calls' = calls + 1
    /\ UNCHANGED <<writer, reader, pure>>

Ingest == \E name \in FileNames, fail \in IngestFails : IngestCall(name, fail)

NextIngest == Upload \/ Ingest

SpecIngest == InitIngest /\ [][NextIngest]_vars

\* C15: for every file whose extension is not in the allowed list, neither
\* upload_document nor ingest_file creates a document row or a chunk row.
C15_UnsupportedCreatesNothing ==
    [][\A name \in FileNames :
          (/\ suffix(name) \notin allowed_extensions
           /\ \/ \E bytes \in Bytes, fail \in UploadFails :
                   UploadCall(name, bytes, fail)
              \/ \E fail \in IngestFails : IngestCall(name, fail))
            => (DOMAIN docs' = DOMAIN docs /\ DOMAIN chunks' = DOMAIN chunks)
      ]_vars

\* -------------------------------------------------------------- validation
\* Scores are percentages.  A sentence of an answer is what the matching
\* strategies of _validate_sentence see of it: its [k] markers in order, the
\* length of its text without markers, the context positions whose content
\* contains that text, and its word-overlap and embedding similarity with
\* the content at each context position.
MaxCtx == 2         \* chunks of one context
MaxAnswer == 2      \* sentences of one answer

CtxPositions == 1..MaxCtx

Sentence(cites, clean_len, within, fuzzy, sim) ==
    [cites |-> cites, clean_len |-> clean_len, within |-> within,
     fuzzy |-> [p \in CtxPositions |-> fuzzy],
     sim |-> [p \in CtxPositions |-> sim]]

SentenceKinds ==
    {Sentence(<<1>>, 30, {}, 40, 80),             \* cites [1], related
     Sentence(<<MaxCtx + 1>>, 30, {}, 70, 30),    \* cites a missing chunk
     Sentence(<<>>, 30, {}, 40, 80),              \* close in meaning only
     Sentence(<<>>, 30, {}, 20, 30)}              \* unsupported

\* an answer text: "" / whitespace only / sentences
EmptyAnswer == [chars |-> "none", sents |-> <<>>]
BlankAnswer == [chars |-> "blank", sents |-> <<>>]
Answers ==
    {EmptyAnswer, BlankAnswer}
      \cup {[chars |-> "text", sents |-> q] :
              q \in SeqsUpTo(SentenceKinds, MaxAnswer) \ {<<>>}}

\* context_chunks: the chunk ids, by citation position
Contexts == {[p \in 1..n |-> p] : n \in 0..MaxCtx}

\* configured settings.MIN_GROUNDING_CONFIDENCE
MinConfidences == {0, 30, 70, 100}

\* _split_sentences
split_sentences(answer) == answer.sents

Max(a, b) == IF a >= b THEN a ELSE b

RECURSIVE best_score(_, _, _)

\* the running maximum of the loops of strategies 3 and 4 (starts at 0.0)
best_score(f, n, p) ==
    IF p > n THEN 0 ELSE Max(f[p], best_score(f, n, p + 1))

\* first position whose score is the maximum and above 0 (0 for None)
best_chunk(f, n) ==
    IF best_score(f, n, 1) = 0 THEN 0
    ELSE CHOOSE p \in 1..n :
           /\ f[p] = best_score(f, n, 1)
           /\ \A r \in 1..(p - 1) : f[r] < f[p]

\* _validate_sentence
validate_sentence(s, ctx) ==
    LET n == Len(ctx)
        citedOk == {j \in DOMAIN s.cites :
                      /\ s.cites[j] - 1 >= 0 /\ s.cites[j] - 1 < n
                      /\ s.sim[s.cites[j]] > 50}
        j1 == CHOOSE j \in citedOk : \A r \in citedOk : j <= r
        exact == {p \in 1..n : s.clean_len > 20 /\ p \in s.within}
        p2 == CHOOSE p \in exact : \A r \in exact : p <= r
        best_match_score == best_score(s.fuzzy, n, 1)
        best_semantic_score == best_score(s.sim, n, 1)
        one(p) == IF p = 0 THEN <<>> ELSE <<ctx[p]>>
    IN
    IF citedOk # {}
    THEN [is_grounded |-> TRUE, confidence |-> s.sim[s.cites[j1]],
          matched_chunks |-> <<ctx[s.cites[j1]]>>, match_type |-> "cited"]
    ELSE IF exact # {}
    THEN [is_grounded |-> TRUE, confidence |-> 100,
          matched_chunks |-> <<ctx[p2]>>, match_type |-> "exact"]
    ELSE IF best_match_score > 60
    THEN [is_grounded |-> TRUE, confidence |-> best_match_score,
          matched_chunks |-> one(best_chunk(s.fuzzy, n)),
          match_type |-> "paraphrase"]
    ELSE IF best_semantic_score > 70
    THEN [is_grounded |-> TRUE, confidence |-> best_semantic_score,
          matched_chunks |-> one(best_chunk(s.sim, n)),
          match_type |-> "inferred"]
    ELSE [is_grounded |-> FALSE,
          confidence |-> Max(best_match_score, best_semantic_score),
          matched_chunks |-> <<>>, match_type |-> "ungrounded"]

\* a float quotient num / den, and its comparisons with a percentage
Quotient(num, den) == [num |-> num, den |-> den]
Below(q, pct) == q.num * 100 < pct * q.den
AtLeast(q, pct) == q.num * 100 >= pct * q.den

\* validate_answer
validate_answer(answer, ctx, min_confidence) ==
    LET sentences == split_sentences(answer)
        sentence_results ==
            [i \in DOMAIN sentences |-> validate_sentence(sentences[i], ctx)]
        grounded_count ==
            Cardinality({i \in DOMAIN sentence_results :
                           sentence_results[i].is_grounded})
        grounding_score ==
            IF sentence_results # <<>>
            THEN Quotient(grounded_count, Len(sentence_results))
            ELSE Quotient(0, 1)
        ungrounded == {i \in DOMAIN sentence_results :
                         ~sentence_results[i].is_grounded}
    IN
    IF answer.chars = "none" \/ ctx = <<>>
    THEN [is_valid |-> FALSE, grounding_score |-> Quotient(0, 1),
          sentence_results |-> <<>>,
          warnings |-> {"Empty answer or context"}, errors |-> {}]
    ELSE [is_valid |-> AtLeast(grounding_score, min_confidence),
          grounding_score |-> grounding_score,
          sentence_results |-> sentence_results,
          warnings |->
              (IF ungrounded # {} THEN {"could not be verified"} ELSE {})
                \cup (IF \A i \in DOMAIN sentences : sentences[i].cites = <<>>
                      THEN {"Answer contains no citation markers"} ELSE {}),
          errors |-> IF Below(grounding_score, 50)
                     THEN {"Less than 50% of the answer is grounded in sources"}
                     ELSE {}]

\* reject_if_ungrounded without the comparison with the threshold
reject_if_ungrounded_errors_only(v, min_confidence) ==
    IF v.errors # {}
    THEN [should_reject |-> TRUE, reason |-> CHOOSE e \in v.errors : TRUE]
    ELSE [should_reject |-> FALSE, reason |-> "None"]

\* reject_if_ungrounded: (should_reject, rejection_reason)
reject_if_ungrounded(v, min_confidence) ==
    IF v.errors # {}
    THEN [should_reject |-> TRUE, reason |-> CHOOSE e \in v.errors : TRUE]
    ELSE IF Below(v.grounding_score, min_confidence)
    THEN [should_reject |-> TRUE, reason |-> "below threshold"]
    ELSE [should_reject |-> FALSE, reason |-> "None"]

NoValidation ==
    [is_valid |-> FALSE, grounding_score |-> Quotient(0, 1),
     sentence_results |-> <<>>, warnings |-> {}, errors |-> {}]

\* POST /query/ : the response, and the rows the request leaves committed
\* (the session is closed without commit on every path but the last)
\* The request's database session: the rows added and flushed but not yet
\* committed, and the rows committed.
NewSession == [pending |-> {}, committed |-> {}]

db_add(session, row) == [session EXCEPT !.pending = @ \cup {row}]

db_commit(session) ==
    [pending |-> {}, committed |-> session.committed \cup session.pending]

db_rollback(session) == [session EXCEPT !.pending = {}]

\* a session whose close writes what is pending
get_db_dependency_committing(session) ==
    session.committed \cup session.pending

\* `finally: db.close()`: what the tables hold once the request is over
get_db_dependency(session) == session.committed

ask_question(a) ==
    LET v == validate_answer(a.answer, a.context, a.min_confidence)
        rej == reject_if_ungrounded(v, a.min_confidence)
        flushed == db_add(NewSession, "query")
        stored == db_add(flushed, "answer")
        refusal(reason, partial, val) ==
            [response |-> "NoAnswerResponse", status |-> 200,
             reason |-> reason, partial_info |-> partial,
             answer |-> <<>>, is_grounded |-> FALSE,
             committed |-> get_db_dependency(flushed), validation |-> val]
    IN
    IF a.retrieved = 0
    THEN refusal("No relevant documents found", <<>>, NoValidation)
    ELSE IF a.context = <<>>
    THEN refusal("Retrieved content too short or irrelevant", <<>>,
                 NoValidation)
    ELSE IF a.llm = "ConnectionError"
    THEN [response |-> "HTTPException", status |-> 503, reason |-> a.llm,
          partial_info |-> <<>>, answer |-> <<>>, is_grounded |-> FALSE,
          committed |-> get_db_dependency(flushed),
          validation |-> NoValidation]
    ELSE IF a.llm = "Exception"
    THEN [response |-> "HTTPException", status |-> 500, reason |-> a.llm,
          partial_info |-> <<>>, answer |-> <<>>, is_grounded |-> FALSE,
          committed |-> get_db_dependency(db_rollback(flushed)),
          validation |-> NoValidation]
    ELSE IF a.require_grounding /\ rej.should_reject
    THEN refusal(rej.reason, <<a.answer>>, v)
    ELSE IF a.commit_fails
    THEN \* db.commit() raises: except Exception, db.rollback(), 500
         [response |-> "HTTPException", status |-> 500,
          reason |-> "Exception", partial_info |-> <<>>, answer |-> <<>>,
          is_grounded |-> FALSE,
          committed |-> get_db_dependency(db_rollback(stored)),
          validation |-> v]
    ELSE [response |-> "AnswerResponse", status |-> 200, reason |-> "None",
          partial_info |-> <<>>, answer |-> <<a.answer>>,
          is_grounded |-> v.is_valid,
          committed |-> get_db_dependency(db_commit(stored)),
          validation |-> v]

AskInputs ==
    UNION {
      {[retrieved |-> r, context |-> c, answer |-> ans, llm |-> "none",
        commit_fails |-> f, require_grounding |-> g, min_confidence |-> m] :
          c \in {x \in Contexts : Len(x) <= r},
          ans \in Answers, f \in BOOLEAN, g \in BOOLEAN,
          m \in MinConfidences}
        \cup
      {[retrieved |-> r, context |-> c, answer |-> EmptyAnswer, llm |-> e,
        commit_fails |-> FALSE, require_grounding |-> g,
        min_confidence |-> m] :
          c \in {x \in Contexts : Len(x) <= r},
          e \in {"ConnectionError", "Exception"}, g \in BOOLEAN,
          m \in MinConfidences} : r \in 0..MaxCtx}

ValidateInputs ==
    [answer : Answers, context : Contexts, min_confidence : MinConfidences]

InitAsk ==
    /\ docs = <<>>
    /\ chunks = <<>>
    /\ fts = <<>>
    /\ files = <<>>
    /\ nextDoc = 0
    /\ nextChunk = 0
    /\ index = <<>>
    /\ chunk_ids = <<>>
    /\ index_file = NoFile
    /\ mapping_file = NoFile
    /\ ret = [op |-> "none", status |-> 0, doc |-> 0]
    /\ calls = 0
    /\ writer = IdleWriter
    /\ reader = IdleReader
    /\ \/ \E a \in AskInputs :
            pure = [fn |-> "ask_question", arg |-> a, out |-> <<>>,
                    done |-> FALSE]
       \/ \E a \in ValidateInputs :
            pure = [fn |-> "validate_answer", arg |-> a, out |-> <<>>,
                    done |-> FALSE]

AskQuestion ==
    /\ pure.fn = "ask_question"
    /\ ~pure.done
    /\ pure' = [pure EXCEPT !.out = ask_question(pure.arg), !.done = TRUE]
    /\ UNCHANGED <<docs, chunks, fts, files, nextDoc, nextChunk, index,
                   chunk_ids, index_file, mapping_file, ret, calls, writer,
                   reader>>

ValidateAnswer ==
    /\ pure.fn = "validate_answer"
    /\ ~pure.done
    /\ pure' = [pure EXCEPT
                  !.out = validate_answer(pure.arg.answer, pure.arg.context,
                                          pure.arg.min_confidence),
                  !.done = TRUE]
    /\ UNCHANGED <<docs, chunks, fts, files, nextDoc, nextChunk, index,
                   chunk_ids, index_file, mapping_file, ret, calls, writer,
                   reader>>

NextAsk == AskQuestion \/ ValidateAnswer

SpecAsk == InitAsk /\ [][NextAsk]_vars

\* the request got as far as validate_answer
ReachedValidation(a) ==
    a.retrieved > 0 /\ a.context # <<>> /\ a.llm = "none"

\* C16: with require_grounding set, ask_question returns a refusal with the
\* reason and the partial text, and not the generated answer, whenever the
\* validation result has a fatal error or grounding_score is below
\* MIN_GROUNDING_CONFIDENCE, and returns an AnswerResponse only otherwise.
C16_RefusesUngrounded ==
    (pure.fn = "ask_question" /\ pure.done /\ pure.arg.require_grounding)
      => LET a == pure.arg
             o == pure.out
             bad == \/ o.validation.errors # {}
                    \/ Below(o.validation.grounding_score, a.min_confidence)
         IN  /\ (ReachedValidation(a) /\ bad)
                  => /\ o.response = "NoAnswerResponse"
                     /\ o.reason # "None"
                     /\ o.partial_info = <<a.answer>>
                     /\ o.answer = <<>>
             /\ o.response = "AnswerResponse"
                  => (ReachedValidation(a) /\ ~bad)

\* a refusal for a score below the threshold without a fatal error
C16_Witness ==
    /\ pure.fn = "ask_question" /\ pure.done /\ pure.arg.require_grounding
    /\ ReachedValidation(pure.arg)
    /\ pure.arg.answer.chars = "text"
    /\ pure.out.validation.errors = {}
    /\ Below(pure.out.validation.grounding_score, pure.arg.min_confidence)
    /\ pure.out.response = "NoAnswerResponse"

\* C17: for every answer and every configured MIN_GROUNDING_CONFIDENCE in
\* [0,1], validate_answer sets is_valid exactly when grounding_score >=
\* MIN_GROUNDING_CONFIDENCE and no fatal error is recorded.
C17_ValidIffThresholdAndNoFatal ==
    (pure.fn = "validate_answer" /\ pure.done)
      => (pure.out.is_valid
            <=> /\ AtLeast(pure.out.grounding_score, pure.arg.min_confidence)
                /\ pure.out.errors = {})

\* C18: the grounding_score of validate_answer lies in [0, 1] and equals 1
\* if and only if every sentence of the answer is grounded, an answer of
\* zero sentences included.
C18_ScoreOneIffAllGrounded ==
    (pure.fn = "validate_answer" /\ pure.done)
      => LET q == pure.out.grounding_score
             sentences == split_sentences(pure.arg.answer)
         IN  /\ q.den > 0 /\ 0 <= q.num /\ q.num <= q.den
             /\ (q.num = q.den)
                  <=> \A i \in DOMAIN sentences :
                        validate_sentence(sentences[i],
                                          pure.arg.context).is_grounded

\* -------------------------------------------------------------- extractive
\* A text is a token and its letter case; the content of the context chunk
\* at position p is token p.  Token 0 occurs in no chunk.
MaxQuotes == 2      \* "quote" [k] pairs of one response

lower(t) == [t EXCEPT !.caps = FALSE]

ContentAt(p) == [text |-> p, caps |-> (p % 2 = 0)]

\* `a in b` for two texts
Contains(b, a) == a = b

QuoteTexts ==
    {[text |-> 0, caps |-> FALSE]}
      \cup [text : CtxPositions, caps : BOOLEAN]

\* what re.findall(quote_pattern, response) yields: (quote, citation_num)
QuotePairs == [quote : QuoteTexts, citation_num : 1..(MaxCtx + 1)]

Responses ==
    [not_found : BOOLEAN, pairs : SeqsUpTo(QuotePairs, MaxQuotes)]

RECURSIVE verify_quotes(_, _, _)

\* the loop over the extracted pairs: a pair whose citation number names no
\* context chunk appends nothing
verify_quotes(pairs, ctx, i) ==
    IF i > Len(pairs) THEN <<>>
    ELSE LET idx == pairs[i].citation_num - 1
             rest == verify_quotes(pairs, ctx, i + 1)
         IN  IF 0 <= idx /\ idx < Len(ctx)
             THEN <<[quote |-> pairs[i].quote,
                     citation |-> pairs[i].citation_num,
                     source |-> ctx[idx + 1],
                     verified |-> Contains(lower(ContentAt(ctx[idx + 1])),
                                           lower(pairs[i].quote))]>> \o rest
             ELSE rest

\* _parse_extractive_response
parse_extractive_response(response, ctx) ==
    LET verified_quotes == verify_quotes(response.pairs, ctx, 1) IN
    IF response.not_found
    THEN [answer |-> <<>>, found |-> FALSE, quotes |-> <<>>,
          all_verified |-> FALSE]
    ELSE [answer |-> <<response>>, found |-> TRUE,
          quotes |-> verified_quotes,
          all_verified |->
              IF verified_quotes # <<>>
              THEN \A i \in DOMAIN verified_quotes :
                     verified_quotes[i].verified
              ELSE FALSE]

\* POST /query/extractive
ask_extractive(a) ==
    LET result == parse_extractive_response(a.response, a.context) IN
    IF a.retrieved = 0
    THEN [response |-> "NoAnswerResponse",
          reason |-> "No relevant documents found",
          grounded_sentences |-> <<>>, is_grounded |-> FALSE,
          grounding_score |-> 0, warning |-> "None"]
    ELSE IF ~result.found
    THEN [response |-> "NoAnswerResponse",
          reason |-> "No extractable answer found in sources",
          grounded_sentences |-> <<>>, is_grounded |-> FALSE,
          grounding_score |-> 0, warning |-> "None"]
    ELSE [response |-> "AnswerResponse", reason |-> "None",
          grounded_sentences |->
              [i \in DOMAIN result.quotes |->
                  [text |-> result.quotes[i].quote,
                   citation |-> result.quotes[i].citation,
                   confidence |-> IF result.quotes[i].verified THEN 100
                                  ELSE 50,
                   is_grounded |-> result.quotes[i].verified]],
          is_grounded |-> result.all_verified,
          grounding_score |-> IF result.all_verified THEN 100 ELSE 70,
          warning |-> IF result.all_verified THEN "None"
                      ELSE "Some quotes could not be verified"]

ExtractInputs ==
    UNION {[retrieved : {Len(c), Len(c) + 1}, context : {c},
            response : Responses] : c \in Contexts}

InitExtract ==
    /\ docs = <<>>
    /\ chunks = <<>>
    /\ fts = <<>>
    /\ files = <<>>
    /\ nextDoc = 0
    /\ nextChunk = 0
    /\ index = <<>>
    /\ chunk_ids = <<>>
    /\ index_file = NoFile
    /\ mapping_file = NoFile
    /\ ret = [op |-> "none", status |-> 0, doc |-> 0]
    /\ calls = 0
    /\ writer = IdleWriter
    /\ reader = IdleReader
    /\ \E a \in ExtractInputs :
         pure = [fn |-> "ask_extractive", arg |-> a, out |-> <<>>,
                 done |-> FALSE]

AskExtractive ==
    /\ pure.fn = "ask_extractive"
    /\ ~pure.done
    /\ pure' = [pure EXCEPT !.out = ask_extractive(pure.arg), !.done = TRUE]
    /\ UNCHANGED <<docs, chunks, fts, files, nextDoc, nextChunk, index,
                   chunk_ids, index_file, mapping_file, ret, calls, writer,
                   reader>>

NextExtract == AskExtractive

SpecExtract == InitExtract /\ [][NextExtract]_vars

\* the pair names a context chunk whose content holds the quote, ignoring
\* letter case
QuoteHolds(pair, ctx) ==
    /\ pair.citation_num \in 1..Len(ctx)
    /\ Contains(lower(ContentAt(ctx[pair.citation_num])), lower(pair.quote))

\* C19: in extractive mode an answer is reported fully verified only if
\* every "quote" [k] pair extracted from the response is a case-insensitive
\* substring of context chunk k-1, and every extracted pair whose check
\* fails is in the returned quote list flagged verified = false.
C19_FullyVerifiedOnlyIfAllQuotes ==
    (pure.fn = "ask_extractive" /\ pure.done
       /\ pure.out.response = "AnswerResponse")
      => LET pairs == pure.arg.response.pairs
             ctx == pure.arg.context
             out == pure.out
         IN  /\ out.is_grounded
                  => \A i \in DOMAIN pairs : QuoteHolds(pairs[i], ctx)
             /\ \A i \in DOMAIN pairs :
                  ~QuoteHolds(pairs[i], ctx)
                    => \E j \in DOMAIN out.grounded_sentences :
                         /\ out.grounded_sentences[j].text = pairs[i].quote
                         /\ out.grounded_sentences[j].citation
                              = pairs[i].citation_num
                         /\ ~out.grounded_sentences[j].is_grounded

\* --------------------------------------------------------------- retrieval
\* Scores are percentages.  The corpus of a retrieve call: document 1 and,
\* possibly, document 2; chunk rows 1..MaxRChunks-1 (odd ids owned by
\* document 1, even ids by document 2); the candidate id MaxRChunks has no
\* chunk row (an index entry that outlived its row).
MaxRChunks == 4     \* chunk ids the two searches can return
MaxTopK == 2        \* top_k of a request

BM25_WEIGHT == 3        \* tenths
DENSE_WEIGHT == 5       \* tenths
STRUCTURAL_WEIGHT == 2  \* tenths

CandIds == 1..MaxRChunks

NoDoc == [category |-> "None", reliability_score |-> 0, present |-> FALSE]

DocRow(category, reliability) ==
    [category |-> category, reliability_score |-> reliability,
     present |-> TRUE]

\* the documents table, by document id
Corpora ==
    {<<DocRow("a", 90), d2>> :
        d2 \in {DocRow("a", 30), DocRow("b", 90), DocRow("None", 90), NoDoc}}

\* the chunks table
ChunkRows ==
    [c \in 1..(MaxRChunks - 1) |->
        [document_id |-> IF c % 2 = 1 THEN 1 ELSE 2,
         chunk_type |-> IF c = 2 THEN "heading" ELSE "paragraph",
         confidence_weight |-> 100,
         has_query |-> FALSE,
         term_coverage |-> IF c % 2 = 1 THEN 100 ELSE 50]]

\* an Optional[List[str]] argument: None, or a list (as the set it holds)
NotSupplied == [supplied |-> FALSE, items |-> {}]
Supplied(items) == [supplied |-> TRUE, items |-> items]

\* truth value of an Optional[List] in `if x`
Truthy(x) == x.supplied /\ x.items # {}

RetrieveInputs ==
    [docs : Corpora,
     query_terms : {0, 2},
     fts_hits : [CandIds -> {0, 10}],
     dense_hits : [CandIds -> {0, 60}],
     document_ids : {NotSupplied, Supplied({}), Supplied({1})},
     categories : {NotSupplied, Supplied({}), Supplied({"a"})},
     min_reliability : {0, 50},
     top_k : {1, MaxTopK}]

\* _bm25_search: chunk_id -> abs(bm25), for the rows of chunks_fts that match
bm25_search(a) ==
    IF a.query_terms = 0 THEN {}
    ELSE {c \in CandIds : a.fts_hits[c] > 0}

\* _merge_results: chunk_id -> {bm25_score, dense_score}
merge_results(a) ==
    LET bm25_results == bm25_search(a)
        dense_results == {c \in CandIds : a.dense_hits[c] > 0}
        max_bm25 == CHOOSE m \in {a.fts_hits[c] : c \in bm25_results} :
                      \A c \in bm25_results : a.fts_hits[c] <= m
    IN  [c \in bm25_results \cup dense_results |->
            [bm25_score |-> IF c \in bm25_results
                            THEN (a.fts_hits[c] * 100) \div max_bm25 ELSE 0,
             dense_score |-> IF c \in dense_results THEN a.dense_hits[c]
                             ELSE 0]]

\* _filter_candidates
filter_candidates(a, candidates) ==
    LET rows == DOMAIN candidates \cap DOMAIN ChunkRows
        keep(c) ==
            LET doc == a.docs[ChunkRows[c].document_id] IN
            /\ doc.present
            /\ ~(Truthy(a.document_ids)
                   /\ ChunkRows[c].document_id \notin a.document_ids.items)
            /\ ~(Truthy(a.categories)
                   /\ doc.category \notin a.categories.items)
            /\ ~(doc.reliability_score < a.min_reliability)
    IN  [c \in {x \in rows : keep(x)} |-> candidates[c]]

\* _structural_rerank: one RetrievedChunk per candidate that has a chunk
\* row, in the order the rows come back (by id)
structural_rerank(a, candidates) ==
    LET rows == SetToSeq(DOMAIN candidates \cap DOMAIN ChunkRows)
        rec(c) ==
            LET chunk == ChunkRows[c]
                doc == a.docs[chunk.document_id]
                structural_score ==
                    (IF chunk.has_query THEN 50 ELSE 0)
                      + (IF a.query_terms = 0 THEN 0
                         ELSE (chunk.term_coverage * 30) \div 100)
                      + (IF chunk.chunk_type = "heading" THEN 20 ELSE 0)
                doc_boost ==
                    (IF doc.present THEN doc.reliability_score ELSE 100)
                      * chunk.confidence_weight
            IN  [chunk_id |-> c, document_id |-> chunk.document_id,
                 bm25_score |-> candidates[c].bm25_score,
                 dense_score |-> candidates[c].dense_score,
                 structural_score |-> structural_score,
                 final_score |->
                     (BM25_WEIGHT * candidates[c].bm25_score
                        + DENSE_WEIGHT * candidates[c].dense_score
                        + STRUCTURAL_WEIGHT * structural_score) * doc_boost]
    IN  [i \in DOMAIN rows |-> rec(rows[i])]

RECURSIVE sorted_desc(_)

\* sorted(results, key=final_score, reverse=True): stable
sorted_desc(q) ==
    IF q = <<>> THEN <<>>
    ELSE LET i == CHOOSE j \in DOMAIN q :
                    /\ \A r \in DOMAIN q : q[r].final_score <= q[j].final_score
                    /\ \A r \in 1..(j - 1) :
                         q[r].final_score < q[j].final_score
         IN  <<q[i]>> \o sorted_desc([r \in 1..(Len(q) - 1) |->
                                         IF r < i THEN q[r] ELSE q[r + 1]])

\* retrieve
retrieve(a) ==
    LET merged == merge_results(a)
        candidates ==
            IF Truthy(a.document_ids) \/ Truthy(a.categories)
                 \/ a.min_reliability > 0
            THEN filter_candidates(a, merged)
            ELSE merged
        results == sorted_desc(structural_rerank(a, candidates))
    IN  SubSeq(results, 1, Min(a.top_k, Len(results)))

InitRetrieve ==
    /\ docs = <<>>
    /\ chunks = <<>>
    /\ fts = <<>>
    /\ files = <<>>
    /\ nextDoc = 0
    /\ nextChunk = 0
    /\ index = <<>>
    /\ chunk_ids = <<>>
    /\ index_file = NoFile
    /\ mapping_file = NoFile
    /\ ret = [op |-> "none", status |-> 0, doc |-> 0]
    /\ calls = 0
    /\ writer = IdleWriter
    /\ reader = IdleReader
    /\ \E a \in RetrieveInputs :
         pure = [fn |-> "retrieve", arg |-> a, out |-> <<>>, done |-> FALSE]

Retrieve ==
    /\ pure.fn = "retrieve"
    /\ ~pure.done
    /\ pure' = [pure EXCEPT !.out = retrieve(pure.arg), !.done = TRUE]
    /\ UNCHANGED <<docs, chunks, fts, files, nextDoc, nextChunk, index,
                   chunk_ids, index_file, mapping_file, ret, calls, writer,
                   reader>>

NextRetrieve == Retrieve

SpecRetrieve == InitRetrieve /\ [][NextRetrieve]_vars

\* C20: every record returned by retrieve has its document in document_ids
\* when that list is supplied, its document's category in categories when
\* that list is supplied, and its document's reliability_score not below
\* min_reliability.
C20_ResultsMeetConstraints ==
    (pure.fn = "retrieve" /\ pure.done)
      => \A i \in DOMAIN pure.out :
           LET a == pure.arg
               d == pure.out[i].document_id
               doc == a.docs[d]
           IN  /\ a.document_ids.supplied => d \in a.document_ids.items
               /\ a.categories.supplied
                    => (doc.present /\ doc.category \in a.categories.items)
               /\ a.min_reliability > 0
                    => (doc.present
                          /\ doc.reliability_score >= a.min_reliability)

\* r1 comes before r2 in the order of the specification: descending
\* final score, then descending dense_score, then ascending chunk id
RanksBefore(r1, r2) ==
    \/ r1.final_score > r2.final_score
    \/ /\ r1.final_score = r2.final_score
       /\ \/ r1.dense_score > r2.dense_score
          \/ /\ r1.dense_score = r2.dense_score
             /\ r1.chunk_id < r2.chunk_id

\* C21: retrieve returns at most top_k records, ordered by descending final
\* score, ties broken by descending dense_score and then by chunk id.
C21_OrderDetermined ==
    (pure.fn = "retrieve" /\ pure.done)
      => /\ Len(pure.out) <= pure.arg.top_k
         /\ \A i, j \in DOMAIN pure.out :
              i < j => RanksBefore(pure.out[i], pure.out[j])

(***************************************************************************)
(* Context assembly (services/context_service.py).  A content is its first *)
(* 100 characters (head) and its length; contents shorter than 100         *)
(* characters are their own head.  A retrieved chunk's id is its position  *)
(* in the retrieved list.                                                  *)
(***************************************************************************)
MaxRetrieved == 3   \* retrieved chunks handed to build_context

ContentKinds ==
    {[head |-> h, len |-> l] : h \in {"h1", "h2"}, l \in {100, 103, 139}}
      \cup {[head |-> "s", len |-> 40]}

ContextInputs ==
    UNION {[chunks : {[i \in 1..n |-> [chunk_id |-> i, content |-> q[i]]] :
                         q \in [1..n -> ContentKinds]},
            max_tokens : {52, 61, 4000}] : n \in 0..MaxRetrieved}

\* content[:100]
content_key(content) == content.head

RECURSIVE unique_from(_, _, _)
unique_from(retrieved, i, acc) ==
    IF i > Len(retrieved) THEN acc
    ELSE IF \E j \in DOMAIN acc :
              content_key(acc[j].content) = content_key(retrieved[i].content)
         THEN unique_from(retrieved, i + 1, acc)
         ELSE unique_from(retrieved, i + 1, Append(acc, retrieved[i]))

unique_chunks_keep_all(retrieved) == retrieved

unique_chunks(retrieved) == unique_from(retrieved, 1, <<>>)

\* len(f"[{i}]")
marker_len(i) == IF i < 10 THEN 3 ELSE 4

\* len(f"{marker} {chunk.content}")
formatted_len(part) == marker_len(part.marker) + 1 + part.content.len

parts_len(parts) == SumSeq([k \in DOMAIN parts |-> formatted_len(parts[k])])

RECURSIVE emit_skipping(_, _, _, _)
emit_skipping(st, uniq, i, max_tokens) ==
    IF i > Len(uniq) THEN st
    ELSE LET formatted == [marker |-> i, content |-> uniq[i].content]
             estimated_tokens == parts_len(st.context_parts) \div 4
         IN  IF estimated_tokens + formatted_len(formatted) \div 4 > max_tokens
             THEN emit_skipping(st, uniq, i + 1, max_tokens)
             ELSE emit_skipping(
                    [context_parts  |-> Append(st.context_parts, formatted),
                     context_chunks |-> Append(st.context_chunks,
                                          [marker   |-> i,
                                           content  |-> uniq[i].content,
                                           chunk_id |-> uniq[i].chunk_id])],
                    uniq, i + 1, max_tokens)

RECURSIVE emit(_, _, _, _)
emit(st, uniq, i, max_tokens) ==
    IF i > Len(uniq) THEN st
    ELSE LET formatted == [marker |-> i, content |-> uniq[i].content]
             estimated_tokens == parts_len(st.context_parts) \div 4
         IN  IF estimated_tokens + formatted_len(formatted) \div 4 > max_tokens
             THEN st
             ELSE emit([context_parts  |-> Append(st.context_parts, formatted),
                        context_chunks |-> Append(st.context_chunks,
                                             [marker   |-> i,
                                              content  |-> uniq[i].content,
                                              chunk_id |-> uniq[i].chunk_id])],
                       uniq, i + 1, max_tokens)

build_context(a) ==
    IF a.chunks = <<>>
    THEN [context_parts |-> <<>>, context_chunks |-> <<>>]
    ELSE emit([context_parts |-> <<>>, context_chunks |-> <<>>],
              unique_chunks(a.chunks), 1, a.max_tokens)

InitContext ==
    /\ docs = <<>>
    /\ chunks = <<>>
    /\ fts = <<>>
    /\ files = <<>>
    /\ nextDoc = 0
    /\ nextChunk = 0
    /\ index = <<>>
    /\ chunk_ids = <<>>
    /\ index_file = NoFile
    /\ mapping_file = NoFile
    /\ ret = [op |-> "none", status |-> 0, doc |-> 0]
    /\ calls = 0
    /\ writer = IdleWriter
    /\ reader = IdleReader
    /\ \E a \in ContextInputs :
         pure = [fn |-> "build_context", arg |-> a, out |-> <<>>, done |-> FALSE]

BuildContext ==
    /\ pure.fn = "build_context" /\ ~pure.done
    /\ pure' = [pure EXCEPT !.out = build_context(pure.arg), !.done = TRUE]
    /\ UNCHANGED <<docs, chunks, fts, files, nextDoc, nextChunk, index,
                   chunk_ids, index_file, mapping_file, ret, calls, writer,
                   reader>>

NextContext == BuildContext

SpecContext == InitContext /\ [][NextContext]_vars

BuiltContext == pure.fn = "build_context" /\ pure.done

\* the first position of the retrieved list whose content has this key
FirstWith(key) ==
    CHOOSE i \in DOMAIN pure.arg.chunks :
        /\ content_key(pure.arg.chunks[i].content) = key
        /\ \A j \in 1..(i - 1) :
             content_key(pure.arg.chunks[j].content) # key

C23_WithinTokenBudget ==
    BuiltContext =>
      LET cc   == pure.out.context_chunks
          uniq == unique_chunks(pure.arg.chunks)
      IN  /\ Len(cc) <= Len(uniq)
          /\ \A i \in DOMAIN cc : /\ cc[i].chunk_id = uniq[i].chunk_id
                                  /\ cc[i].content = uniq[i].content
          /\ parts_len(pure.out.context_parts) \div 4 <= pure.arg.max_tokens

\* C27: the chunk at position i of the list returned by build_context carries
\* marker [i] with no gaps, so context_chunks[k-1] is the chunk that was
\* shown to the generator under [k].
C27_MarkerIsRank ==
    BuiltContext =>
      LET cc == pure.out.context_chunks
          cp == pure.out.context_parts
      IN  /\ Len(cp) = Len(cc)
          /\ \A k \in DOMAIN cc : /\ cc[k].marker = k
                                  /\ cp[k].marker = k
                                  /\ cp[k].content = cc[k].content

C27_Witness ==
    /\ BuiltContext
    /\ Len(unique_chunks(pure.arg.chunks)) = 3
    /\ Len(pure.out.context_chunks) = 2
    /\ pure.out.context_chunks[2].marker = 2

(***************************************************************************)
(* One sentence through _validate_sentence: the sentence's citations, the  *)
(* length of its text without markers, the context positions whose content *)
(* contains that text, and its two scores against each position.           *)
(***************************************************************************)
SentenceInputs ==
    [sentence : [cites     : {<<>>, <<1>>, <<MaxCtx + 1, 1>>},
                 clean_len : {19, 20, 21},
                 within    : SUBSET CtxPositions,
                 fuzzy     : [CtxPositions -> {40, 70}],
                 sim       : [CtxPositions -> {30, 60, 80}]],
     context_chunks : Contexts]

InitSentence ==
    /\ docs = <<>>
    /\ chunks = <<>>
    /\ fts = <<>>
    /\ files = <<>>
    /\ nextDoc = 0
    /\ nextChunk = 0
    /\ index = <<>>
    /\ chunk_ids = <<>>
    /\ index_file = NoFile
    /\ mapping_file = NoFile
    /\ ret = [op |-> "none", status |-> 0, doc |-> 0]
    /\ calls = 0
    /\ writer = IdleWriter
    /\ reader = IdleReader
    /\ \E a \in SentenceInputs :
         pure = [fn |-> "validate_sentence", arg |-> a, out |-> <<>>,
                 done |-> FALSE]

ValidateSentence ==
    /\ pure.fn = "validate_sentence" /\ ~pure.done
    /\ pure' = [pure EXCEPT
                  !.out = validate_sentence(pure.arg.sentence,
                                            pure.arg.context_chunks),
                  !.done = TRUE]
    /\ UNCHANGED <<docs, chunks, fts, files, nextDoc, nextChunk, index,
                   chunk_ids, index_file, mapping_file, ret, calls, writer,
                   reader>>

NextSentence == ValidateSentence

SpecSentence == InitSentence /\ [][NextSentence]_vars

ValidatedSentence == pure.fn = "validate_sentence" /\ pure.done

\* the positions of the context
Shown == 1..Len(pure.arg.context_chunks)

\* the tests of the four strategies, on the validated sentence
CitedPasses ==
    \E j \in DOMAIN pure.arg.sentence.cites :
        /\ pure.arg.sentence.cites[j] \in Shown
        /\ pure.arg.sentence.sim[pure.arg.sentence.cites[j]] > 50

ExactPasses ==
    /\ pure.arg.sentence.clean_len >= 20
    /\ pure.arg.sentence.within \cap Shown # {}

ParaphrasePasses == \E p \in Shown : pure.arg.sentence.fuzzy[p] > 60

InferredPasses == \E p \in Shown : pure.arg.sentence.sim[p] > 70

\* the largest score over the context, 0 on an empty context
MaxOver(f) ==
    CHOOSE m \in {0} \cup {f[p] : p \in Shown} :
        \A p \in Shown : m >= f[p]

FirstPassing ==
    IF CitedPasses THEN "cited"
    ELSE IF ExactPasses THEN "exact"
    ELSE IF ParaphrasePasses THEN "paraphrase"
    ELSE IF InferredPasses THEN "inferred"
    ELSE "ungrounded"

\* C24: _validate_sentence returns the match type of the first strategy, in
\* the order CITED, EXACT, PARAPHRASE, INFERRED, whose test passes, with
\* is_grounded true; it returns UNGROUNDED with is_grounded false, no matched
\* chunk and the maximum of the paraphrase and semantic scores as confidence
\* exactly when none passes.
C24_FirstPassingStrategy ==
    ValidatedSentence =>
      /\ pure.out.match_type = FirstPassing
      /\ pure.out.is_grounded <=> FirstPassing # "ungrounded"
      /\ FirstPassing = "ungrounded" =>
           /\ pure.out.matched_chunks = <<>>
           /\ pure.out.confidence
                = Max(MaxOver(pure.arg.sentence.fuzzy),
                      MaxOver(pure.arg.sentence.sim))

\* C25: a sentence that no citation grounds is marked EXACT with confidence
\* 1.0 whenever its text without markers is at least 20 characters long and
\* is a substring of some context chunk.
C25_ExactFromTwentyChars ==
    (ValidatedSentence /\ ~CitedPasses /\ ExactPasses)
      => (pure.out.match_type = "exact" /\ pure.out.confidence = 100)

RECURSIVE Flatten(_)
\* the contents of a list of chunks, joined in order
Flatten(cs) ==
    IF cs = <<>> THEN <<>> ELSE Head(cs).content \o Flatten(Tail(cs))

NonHeadings(cs) == SelectSeq(cs, LAMBDA c : c.chunk_type # "heading")

MergedMarkdown == pure.fn = "process_document" /\ pure.done
                    /\ pure.arg.file_type = "markdown"

\* C26: after _merge_small_chunks every HEADING chunk of the input appears
\* in the output with its content unchanged, and the small non-heading chunks
\* have been merged into non-heading chunks only.
C26_HeadingsNeverMerged ==
    MergedMarkdown =>
      LET input == line_chunks(pure.arg.body)
      IN  /\ \A i \in DOMAIN input :
               input[i].chunk_type = "heading"
                 => \E k \in DOMAIN pure.out :
                       /\ pure.out[k].chunk_type = "heading"
                       /\ pure.out[k].content = input[i].content
          /\ Len(SelectSeq(pure.out, LAMBDA c : c.chunk_type = "heading"))
               = Len(SelectSeq(input, LAMBDA c : c.chunk_type = "heading"))
          /\ Flatten(NonHeadings(pure.out)) = Flatten(NonHeadings(input))

ChunkedText == pure.fn = "process_document" /\ pure.done
                 /\ pure.arg.file_type \in {"txt", "pdf"}

\* C29: every chunk emitted by _chunk_text_with_structure is non-empty, and
\* its content is at most CHUNK_SIZE characters long unless it consists of
\* one single sentence that is itself longer than CHUNK_SIZE.
C29_ChunkWithinSize ==
    ChunkedText =>
      \A k \in DOMAIN pure.out :
          /\ pure.out[k].content # <<>>
          /\ StrLen(pure.out[k].content) > 0
          /\ \/ StrLen(pure.out[k].content) <= CHUNK_SIZE
             \/ /\ Len(pure.out[k].content) = 1
                /\ pure.out[k].content[1] > CHUNK_SIZE

C29_Witness ==
    /\ ChunkedText
    /\ \E k \in DOMAIN pure.out :
          /\ Len(pure.out[k].content) = 1
          /\ pure.out[k].content[1] > CHUNK_SIZE
    /\ \E k \in DOMAIN pure.out :
          /\ Len(pure.out[k].content) >= 2
          /\ StrLen(pure.out[k].content) <= CHUNK_SIZE
    /\ \E k \in DOMAIN pure.out :
          /\ Len(pure.out[k].content) = 1
          /\ \E i \in DOMAIN pure.arg.body :
               (pure.arg.file_type = "txt"
                  /\ Len(pure.arg.body[i]) = 2
                  /\ StrLen(pure.arg.body[i]) > CHUNK_SIZE
                  /\ pure.arg.body[i][1] = pure.out[k].content[1]
                  /\ pure.arg.body[i][1] <= CHUNK_SIZE)

\* the committed chunk rows of document d after the step
RowsAfter(d) == {c \in DOMAIN chunks' : chunks'[c].document_id = d}

\* C28: a document's status changes only PROCESSING -> INDEXED or
\* PROCESSING -> FAILED, atomically with its chunks' insertion: the committed
\* status of a document never changes afterwards, no committed state shows a
\* document in PROCESSING, and a committed INDEXED document has all chunks of
\* its ingestion committed with it.
C28_StatusSetOnceWithChunks ==
    [][/\ \A d \in DOMAIN docs \cap DOMAIN docs' :
            docs'[d].status = docs[d].status
       /\ \A d \in DOMAIN docs' :
            /\ docs'[d].status # "processing"
            /\ docs'[d].status = "indexed"
                 => Cardinality(RowsAfter(d)) = docs'[d].chunk_count]_vars

====
